---- MODULE Spec2Model ----
(***************************************************************************)
(* Model of the room coordination and relay service of Sync-stream,        *)
(* src/backend/src/index.ts.  The file holds two servers: the socket.io    *)
(* server (lines 97-219) with its in-memory registry `rooms`, and the      *)
(* Durable Object `Room` (lines 24-95), a WebSocket relay.  A run is a run *)
(* of one of them; `backend` says which.                                   *)
(***************************************************************************)
EXTENDS Integers, Sequences, FiniteSets, Bags, TLC

\* ------------------------------------------------------------------ bounds
NumSockets == 3      \* connections accepted during a run
MaxSeconds == 1      \* largest play-head a client reports
MaxPages == 2        \* room pages opened during a run

\* --------------------------------------------------------- values of the JS
Undef == "<undefined>"     \* JavaScript undefined
Null == "<null>"           \* JavaScript null
Sockets == 1..NumSockets   \* socket k is the k-th connection accepted
RoomIds == {"r1", "r2"}
PeerIds == {"pa", "pb"}
\* The userId and peerId the client of socket s presents in join-room: the
\* clients of the odd sockets present one identity, those of the even sockets
\* another, so that identifiers are shared by some sessions and not by others.
UserOf(s) == IF s % 2 = 1 THEN "ua" ELSE "ub"
PeerOf(s) == IF s % 2 = 1 THEN "pa" ELSE "pb"
SignalTargets == PeerIds \cup {Undef}

\* Mutant of Falsy: the action handler without its `!roomId` test.
FalsyNever(v) == FALSE

\* Mutant of Falsy: only the empty string is taken for a missing roomId.
FalsyOnlyEmpty(v) == v = ""

\* JavaScript truthiness of a room identifier: undefined and "" are falsy.
Falsy(v) == v \in {Undef, ""}

VARIABLES
  backend,     \* "socketio" | "durable": the server of index.ts that runs
  nextId,      \* connections accepted so far
  connected,   \* io.sockets.sockets: the connected sockets (Map order = id order);
               \* for the Durable Object, the WebSockets accepted and not yet closed
  data,        \* socket.data of each socket
  joined,      \* the socket.io rooms each socket is in (socket.join)
  rooms,       \* the registry `rooms`: room id -> room object
  sessions,    \* Room.sessions of the Durable Object: WebSocket -> session object
               \* (Map order = id order)
  ready,       \* the sockets of the Durable Object whose readyState is OPEN
  storage,     \* state.storage 'roomState' of the Durable Object
  lastOp,      \* the message the server handled last
  lastOut,     \* the emit/send calls of that handler, in order
  pages        \* the React state of the room page behind a socket, for the
               \* sockets whose client is the room page: socket -> page state

vars == <<backend, nextId, connected, data, joined, rooms, sessions, ready,
          storage, lastOp, lastOut, pages>>

ioVars == <<connected, data, joined, rooms>>
doVars == <<sessions, ready, storage>>

NoData == [roomId |-> Undef, userId |-> Undef, peerId |-> Undef]

Init ==
  /\ pages = << >>
  /\ backend \in {"socketio", "durable"}
  /\ nextId = 0
  /\ connected = {}
  /\ data = [s \in Sockets |-> NoData]
  /\ joined = [s \in Sockets |-> {}]
  /\ rooms = <<>>
  /\ sessions = << >>
  /\ ready = {}
  /\ storage = Undef
  /\ lastOp = [op |-> "none"]
  /\ lastOut = <<>>

\* ------------------------------------------------------------ socket.io
\* One emit call: the event, the sockets it is delivered to, its argument.
Emit(ev, to, payload) == [ev |-> ev, to |-> to, payload |-> payload]

\* socket.id, the key of a socket in `users`, as a string a client can send
SocketId(s) == <<"sid1", "sid2", "sid3", "sid4", "sid5", "sid6">>[s]

\* The sockets in the socket.io room `r` (io.to(r)) given the room sets `j`
\* and the connected sockets `c`: those that called socket.join(r), and the
\* socket whose id is `r`, which socket.io puts in a room of that name.
IoRoom(j, c, r) == {t \in c : r \in j[t] \/ r = SocketId(t)}

FreshRoom == [users |-> << >>, mediaUrl |-> Null, isPlaying |-> FALSE, currentTime |-> 0]

\* rooms[roomId] after `if (!rooms[roomId]) rooms[roomId] = {...}`
GetOrCreate(rs, r) == IF r \in DOMAIN rs THEN rs[r] ELSE FreshRoom

\* users[sid] = {userId, peerId}; `users` is the object keyed by socket.id
PutUser(users, sid, u, p) ==
  [k \in DOMAIN users \cup {sid} |->
     IF k = sid THEN [userId |-> u, peerId |-> p] ELSE users[k]]

\* delete users[sid]
DeleteUser(users, sid) == [k \in DOMAIN users \ {sid} |-> users[k]]

SetRoom(rs, r, room) == [k \in DOMAIN rs \cup {r} |-> IF k = r THEN room ELSE rs[k]]

DeleteRoom(rs, r) == [k \in DOMAIN rs \ {r} |-> rs[k]]

\* Object.values(users).map(u => ({userId: u.userId, peerId: u.peerId})): one
\* entry per key of `users`.  The entries are indexed here by the key they come
\* from, not by their position in the array.
MapUsers(users) ==
  [k \in DOMAIN users |-> [userId |-> users[k].userId, peerId |-> users[k].peerId]]

Connect ==
  /\ backend = "socketio"
  /\ nextId < NumSockets
  /\ nextId' = nextId + 1
  /\ connected' = connected \cup {nextId + 1}
  /\ lastOp' = [op |-> "connect", sock |-> nextId + 1]
  /\ lastOut' = <<>>
  /\ UNCHANGED <<backend, data, joined, rooms, doVars>>

\* The list sent as `existing-users`.
ExistingUsers(room, s) == MapUsers(room.users)

\* Mutant of JoinEmits: the joiner is served first, the others are told last.
JoinEmitsJoinerFirst(s, u, p, room, others) ==
  << Emit("room-state", {s}, room),
     Emit("existing-users", {s}, MapUsers(room.users)),
     Emit("user-joined", others, [userId |-> u, peerId |-> p]) >>

\* Mutant of JoinEmits: room-state carries the playback state of a new room
\* instead of the one the actions made.
JoinEmitsInitialState(s, u, p, room, others) ==
  << Emit("user-joined", others, [userId |-> u, peerId |-> p]),
     Emit("room-state", {s}, [FreshRoom EXCEPT !.users = room.users]),
     Emit("existing-users", {s}, ExistingUsers(room, s)) >>

\* The emit calls of the join-room handler, in order; `room` is rooms[roomId]
\* after the joiner was added, `others` the other sockets of the socket.io room.
JoinEmits(s, u, p, room, others) ==
  << Emit("user-joined", others, [userId |-> u, peerId |-> p]),
     Emit("room-state", {s}, room),
     Emit("existing-users", {s}, ExistingUsers(room, s)) >>

JoinRoom(s, r, u, p) ==
  /\ backend = "socketio"
  /\ s \in connected
  /\ LET room == [GetOrCreate(rooms, r) EXCEPT !.users = PutUser(@, s, u, p)]
         j == [joined EXCEPT ![s] = @ \cup {r}]
     IN  /\ joined' = j
         /\ data' = [data EXCEPT ![s] = [roomId |-> r, userId |-> u, peerId |-> p]]
         /\ rooms' = SetRoom(rooms, r, room)
         /\ lastOut' = JoinEmits(s, u, p, room, IoRoom(j, connected, r) \ {s})
  /\ lastOp' = [op |-> "join", sock |-> s, room |-> r, userId |-> u, peerId |-> p]
  /\ UNCHANGED <<backend, nextId, connected, doVars>>

\* payload.seconds of an action sent without `seconds`: undefined, kept apart
\* from every number a client reports
UndefSeconds == -1000

\* Mutant of Apply: a new media keeps the old position.
ApplyMediaKeepsPosition(room, d) ==
  CASE d.type = "play"  -> [room EXCEPT !.isPlaying = TRUE, !.currentTime = d.seconds]
    [] d.type = "pause" -> [room EXCEPT !.isPlaying = FALSE, !.currentTime = d.seconds]
    [] d.type = "seek"  -> [room EXCEPT !.currentTime = d.seconds]
    [] d.type = "media" -> [room EXCEPT !.mediaUrl = d.url, !.isPlaying = TRUE]
    [] OTHER -> room

\* Mutant of Apply: a seek moves the position by `seconds`.
ApplySeekRelative(room, d) ==
  CASE d.type = "play"  -> [room EXCEPT !.isPlaying = TRUE, !.currentTime = d.seconds]
    [] d.type = "pause" -> [room EXCEPT !.isPlaying = FALSE, !.currentTime = d.seconds]
    [] d.type = "seek"  -> [room EXCEPT !.currentTime = @ + d.seconds]
    [] d.type = "media" -> [room EXCEPT !.mediaUrl = d.url, !.isPlaying = TRUE,
                                        !.currentTime = 0]
    [] OTHER -> room

\* Mutant of Apply: a pause records the position and leaves the player running.
ApplyPauseKeepsPlaying(room, d) ==
  CASE d.type = "play"  -> [room EXCEPT !.isPlaying = TRUE, !.currentTime = d.seconds]
    [] d.type = "pause" -> [room EXCEPT !.currentTime = d.seconds]
    [] d.type = "seek"  -> [room EXCEPT !.currentTime = d.seconds]
    [] d.type = "media" -> [room EXCEPT !.mediaUrl = d.url, !.isPlaying = TRUE,
                                        !.currentTime = 0]
    [] OTHER -> room

\* Mutant of Apply: a seek also stops the player.
ApplySeekPauses(room, d) ==
  CASE d.type = "play"  -> [room EXCEPT !.isPlaying = TRUE, !.currentTime = d.seconds]
    [] d.type = "pause" -> [room EXCEPT !.isPlaying = FALSE, !.currentTime = d.seconds]
    [] d.type = "seek"  -> [room EXCEPT !.isPlaying = FALSE, !.currentTime = d.seconds]
    [] d.type = "media" -> [room EXCEPT !.mediaUrl = d.url, !.isPlaying = TRUE,
                                        !.currentTime = 0]
    [] OTHER -> room

\* Mutant of Apply: an action of an unknown type stops the player.
ApplyUnknownStops(room, d) ==
  CASE d.type = "play"  -> [room EXCEPT !.isPlaying = TRUE, !.currentTime = d.seconds]
    [] d.type = "pause" -> [room EXCEPT !.isPlaying = FALSE, !.currentTime = d.seconds]
    [] d.type = "seek"  -> [room EXCEPT !.currentTime = d.seconds]
    [] d.type = "media" -> [room EXCEPT !.mediaUrl = d.url, !.isPlaying = TRUE,
                                        !.currentTime = 0]
    [] OTHER -> [room EXCEPT !.isPlaying = FALSE]

\* The switch of the action handler.
Apply(room, d) ==
  CASE d.type = "play"  -> [room EXCEPT !.isPlaying = TRUE, !.currentTime = d.seconds]
    [] d.type = "pause" -> [room EXCEPT !.isPlaying = FALSE, !.currentTime = d.seconds]
    [] d.type = "seek"  -> [room EXCEPT !.currentTime = d.seconds]
    [] d.type = "media" -> [room EXCEPT !.mediaUrl = d.url, !.isPlaying = TRUE,
                                        !.currentTime = 0]
    [] OTHER -> room

\* Mutant of SyncRecipients: socket.to(roomId), which leaves the sender out.
SyncRecipientsNoSender(r, s) == IoRoom(joined, connected, r) \ {s}

\* The sockets `io.to(roomId).emit('sync', ...)` reaches; `s` is the sender.
SyncRecipients(r, s) == IoRoom(joined, connected, r)

\* Mutant of Action: the sync carries the room as it was before the action.
ActionStaleSync(s, d) ==
  /\ backend = "socketio"
  /\ s \in connected
  /\ lastOp' = [op |-> "action", sock |-> s, room |-> data[s].roomId, d |-> d]
  /\ LET r == data[s].roomId
     IN  IF Falsy(r) \/ r \notin DOMAIN rooms
           THEN /\ lastOut' = <<>>
                /\ UNCHANGED rooms
           ELSE /\ rooms' = [rooms EXCEPT ![r] = Apply(@, d)]
                /\ lastOut' = << Emit("sync", SyncRecipients(r, s), rooms[r]) >>
  /\ UNCHANGED <<backend, nextId, connected, data, joined, doVars>>

Action(s, d) ==
  /\ backend = "socketio"
  /\ s \in connected
  /\ lastOp' = [op |-> "action", sock |-> s, room |-> data[s].roomId, d |-> d]
  /\ LET r == data[s].roomId
     IN  IF Falsy(r) \/ r \notin DOMAIN rooms
           THEN /\ lastOut' = <<>>
                /\ UNCHANGED rooms
           ELSE /\ rooms' = [rooms EXCEPT ![r] = Apply(@, d)]
                /\ lastOut' = << Emit("sync", SyncRecipients(r, s), Apply(rooms[r], d)) >>
  /\ UNCHANGED <<backend, nextId, connected, data, joined, doVars>>

\* `return null` of findSocketByPeerId: no socket
NoSocket == 0

\* findSocketByPeerId: the first socket of io.sockets.sockets whose
\* socket.data.peerId is `p`, or null.
FindSocketByPeerId(p) ==
  LET hits == {t \in connected : data[t].peerId = p}
  IN  IF hits = {} THEN NoSocket ELSE CHOOSE t \in hits : \A x \in hits : t <= x

Signal(s, target, sig) ==
  /\ backend = "socketio"
  /\ s \in connected
  /\ lastOp' = [op |-> "signal", sock |-> s, target |-> target, signal |-> sig]
  /\ LET t == FindSocketByPeerId(target)
     IN  lastOut' = IF t = NoSocket THEN <<>>
                    ELSE << Emit("signal", {t},
                                 [fromPeerId |-> data[s].peerId, signal |-> sig]) >>
  /\ UNCHANGED <<backend, nextId, ioVars, doVars>>

\* The argument of the `user-left` event a disconnecting socket causes.
UserLeftPayload(s) == data[s].userId

\* Mutant of LeaveRoom: the empty room is not cleaned up.
LeaveRoomKeepEmpty(rs, r, s) == [rs EXCEPT ![r].users = DeleteUser(@, s)]

\* rooms after the disconnect handler removed `s` from room `r`.
LeaveRoom(rs, r, s) ==
  LET users == DeleteUser(rs[r].users, s)
  IN  IF Cardinality(DOMAIN users) = 0 THEN DeleteRoom(rs, r)
      ELSE [rs EXCEPT ![r].users = users]

Disconnect(s) ==
  /\ backend = "socketio"
  /\ s \in connected
  /\ connected' = connected \ {s}
  /\ joined' = [joined EXCEPT ![s] = {}]
  /\ data' = [data EXCEPT ![s] = NoData]
  /\ lastOp' = [op |-> "disconnect", sock |-> s, room |-> data[s].roomId,
                 userId |-> data[s].userId]
  /\ LET r == data[s].roomId
     IN  IF ~Falsy(r) /\ r \in DOMAIN rooms
           THEN /\ rooms' = LeaveRoom(rooms, r, s)
                /\ lastOut' = << Emit("user-left", IoRoom(joined', connected', r),
                                      UserLeftPayload(s)) >>
           ELSE /\ lastOut' = <<>>
                /\ UNCHANGED rooms
  /\ UNCHANGED <<backend, nextId, doVars>>

ActionInputs ==
  { [type |-> "play", seconds |-> MaxSeconds, url |-> Undef],
    [type |-> "media", seconds |-> Undef, url |-> "m1"] }

IoNext ==
  \/ Connect /\ UNCHANGED pages
  \/ \E s \in Sockets, r \in RoomIds : JoinRoom(s, r, UserOf(s), PeerOf(s)) /\ UNCHANGED pages
  \/ \E s \in Sockets, d \in ActionInputs : Action(s, d) /\ UNCHANGED pages
  \/ \E s \in Sockets, t \in SignalTargets : Signal(s, t, "sdp") /\ UNCHANGED pages
  \/ \E s \in Sockets : Disconnect(s) /\ UNCHANGED pages

\* The actions of clients that control playback, with and without the field
\* their type needs, with a position before the start of the media, and one
\* of an unknown type
PlayInputs ==
  [type : {"play", "pause", "seek"}, seconds : (-1..MaxSeconds) \cup {UndefSeconds},
   url : {Undef}]
    \cup [type : {"media"}, seconds : {UndefSeconds}, url : {"m1", Undef}]
    \cup [type : {"stop"}, seconds : {UndefSeconds}, url : {Undef}]

\* The socket.io server with one room and every kind of action
InitIo == Init /\ backend = "socketio"

NextPlay ==
  \/ Connect /\ UNCHANGED pages
  \/ \E s \in Sockets : JoinRoom(s, "r1", UserOf(s), PeerOf(s)) /\ UNCHANGED pages
  \/ \E s \in Sockets, d \in PlayInputs : Action(s, d) /\ UNCHANGED pages
  \/ \E s \in Sockets : Disconnect(s) /\ UNCHANGED pages

SpecPlay == InitIo /\ [][NextPlay]_vars

\* A client that names the id of another socket as its room: every member
\* reads the socket ids of its room in the keys of `users`
ForeignRoomIds == {"r1", SocketId(1)}

PlayAtMax == [type |-> "play", seconds |-> MaxSeconds, url |-> Undef]

NextForeign ==
  \/ Connect /\ UNCHANGED pages
  \/ \E s \in Sockets, r \in ForeignRoomIds : JoinRoom(s, r, UserOf(s), PeerOf(s)) /\ UNCHANGED pages
  \/ \E s \in Sockets : Action(s, PlayAtMax) /\ UNCHANGED pages
  \/ \E s \in Sockets : Disconnect(s) /\ UNCHANGED pages

SpecForeign == InitIo /\ [][NextForeign]_vars

\* The join-room messages of clients that leave fields out: complete, without
\* roomId, and without userId and peerId
JoinInputs(s) ==
  {<<"r1", UserOf(s), PeerOf(s)>>, <<Undef, UserOf(s), PeerOf(s)>>,
   <<"r1", Undef, Undef>>}

NextMissing ==
  \/ Connect /\ UNCHANGED pages
  \/ \E s \in Sockets : \E j \in JoinInputs(s) : JoinRoom(s, j[1], j[2], j[3]) /\ UNCHANGED pages
  \/ \E s \in Sockets : Action(s, PlayAtMax) /\ UNCHANGED pages
  \/ \E s \in Sockets : Disconnect(s) /\ UNCHANGED pages

SpecMissing == InitIo /\ [][NextMissing]_vars

\* ------------------------------------------------------------ room page
\* The clients of the socket.io server that are the room page, pages/room/[id].js,
\* all opened on the room "r1".  A message a page emits is handled by the
\* server, and what the handler emits reaches the pages, in the same step.

\* The state of a page that was just opened: peer is the state of its PeerJS
\* peer ("new" | "open"), stream says whether myStream is set, joins counts
\* the join-room messages emitted on the connection, users is the `users`
\* list (as a bag), cb the callbacks the player widget has yet to invoke for
\* changes the page made to it, last the cause of the last action the page
\* emitted ("none" | "user" | "widget").
FreshPage ==
  [peer |-> "new", stream |-> FALSE, joins |-> 0, users |-> EmptyBag,
   isPlaying |-> FALSE, cb |-> {}, last |-> "none"]

\* userIdRef.current of the page behind socket s
PageUserId(s) == <<"u1", "u2", "u3", "u4", "u5", "u6">>[s]

\* The id PeerJS gives the peer of the page behind socket s: one for the peer
\* made before myStream is set, another for the peer made after
PagePeerId(s, stream) ==
  IF stream THEN <<"p1b", "p2b", "p3b", "p4b", "p5b", "p6b">>[s]
  ELSE <<"p1a", "p2a", "p3a", "p4a", "p5a", "p6a">>[s]

\* Object.values of the `existing-users` list: its entries, each as often as
\* it occurs
ValuesBag(f) ==
  [u \in {f[k] : k \in DOMAIN f} |-> Cardinality({k \in DOMAIN f : f[k] = u})]

\* prev.filter(u => u.userId !== userId)
WithoutUser(users, userId) ==
  [u \in {v \in DOMAIN users : v.userId # userId} |-> users[u]]

\* The socket.on handlers of the page: page state p after event e.  The
\* handlers of room-state and sync set isPlaying and call seekTo, for which
\* the player widget may invoke onPlay or onPause, and onSeek.
PageOn(p, e) ==
  CASE e.ev = "existing-users" -> [p EXCEPT !.users = ValuesBag(e.payload)]
    [] e.ev = "user-joined" -> [p EXCEPT !.users = @ (+) SetToBag({e.payload})]
    [] e.ev = "user-left" -> [p EXCEPT !.users = WithoutUser(@, e.payload)]
    [] e.ev \in {"room-state", "sync"} ->
         [p EXCEPT !.isPlaying = e.payload.isPlaying,
                   !.cb = IF e.payload.isPlaying = p.isPlaying THEN @ \cup {"seek"}
                          ELSE (@ \ {"play", "pause"}) \cup
                               {IF e.payload.isPlaying THEN "play" ELSE "pause", "seek"}]
    [] OTHER -> p

\* Page state p of socket t after the emit calls `out` that reach t, in order
RECURSIVE PageAfter(_, _, _)
PageAfter(p, t, out) ==
  IF out = <<>> THEN p
  ELSE PageAfter(IF t \in Head(out).to THEN PageOn(p, Head(out)) ELSE p, t, Tail(out))

\* The pages after the emit calls `out` were delivered
Arrive(pg, out) == [t \in DOMAIN pg |-> PageAfter(pg[t], t, out)]

\* The page is opened: io(backendUrl) connects, the PeerJS effect makes a
\* peer; getUserMedia may have resolved before the socket was set.
PageMount(stream) ==
  /\ nextId < MaxPages
  /\ Connect
  /\ pages' = [t \in DOMAIN pages \cup {nextId + 1} |->
                 IF t = nextId + 1 THEN [FreshPage EXCEPT !.stream = stream]
                 ELSE pages[t]]

\* getUserMedia resolves: setMyStream re-runs the PeerJS effect, which
\* destroys the peer and makes a new one.
StreamReady(s) ==
  /\ s \in connected
  /\ s \in DOMAIN pages /\ ~ pages[s].stream
  /\ pages' = [pages EXCEPT ![s].stream = TRUE, ![s].peer = "new"]
  /\ UNCHANGED <<backend, nextId, ioVars, doVars, lastOp, lastOut>>

\* peer.on('open'): the page emits join-room
PeerOpen(s) ==
  /\ s \in DOMAIN pages /\ pages[s].peer = "new"
  /\ JoinRoom(s, "r1", PageUserId(s), PagePeerId(s, pages[s].stream))
  /\ pages' = Arrive([pages EXCEPT ![s].peer = "open", ![s].joins = @ + 1], lastOut')

\* handlePlay, handlePause, handleSeek: the page emits the action of kind k
\* at the position t the player reports; cause is "user" or "widget"
PageEmit(s, k, t, cause) ==
  /\ Action(s, [type |-> k, seconds |-> t, url |-> Undef])
  /\ pages' = Arrive([pages EXCEPT
                        ![s].isPlaying = IF k = "seek" THEN @ ELSE k = "play",
                        ![s].cb = IF cause = "widget" THEN @ \ {k} ELSE @,
                        ![s].last = cause], lastOut')

\* The user plays, pauses or seeks in the player
UserInput(s, k, t) ==
  /\ s \in DOMAIN pages
  /\ PageEmit(s, k, t, "user")

\* The player invokes onPlay, onPause or onSeek for a change the page made
WidgetCallback(s, k, t) ==
  /\ s \in DOMAIN pages /\ k \in pages[s].cb
  /\ PageEmit(s, k, t, "widget")

\* The page is closed: the cleanup of the socket effect disconnects
PageUnmount(s) ==
  /\ s \in DOMAIN pages
  /\ Disconnect(s)
  /\ pages' = Arrive([t \in DOMAIN pages \ {s} |-> pages[t]], lastOut')

PlayerKinds == {"play", "pause", "seek"}

NextPage ==
  \/ \E stream \in BOOLEAN : PageMount(stream)
  \/ \E s \in Sockets : StreamReady(s)
  \/ \E s \in Sockets : PeerOpen(s)
  \/ \E s \in Sockets, k \in PlayerKinds, t \in 0..MaxSeconds : UserInput(s, k, t)
  \/ \E s \in Sockets, k \in PlayerKinds, t \in 0..MaxSeconds : WidgetCallback(s, k, t)
  \/ \E s \in Sockets : PageUnmount(s)

SpecPage == InitIo /\ [][NextPage]_vars

\* ------------------------------------------------------- Durable Object
\* The messages the clients of the Durable Object send (already JSON.parse'd).
DOMessages ==
  { [type |-> "sync",   targetId |-> Undef, payload |-> "state"],
    [type |-> "signal", targetId |-> "ua",  payload |-> "sdp"],
    [type |-> "signal", targetId |-> Undef, payload |-> "sdp"],
    [type |-> "chat",   targetId |-> Undef, payload |-> "hi"] }

\* The session object `{}` of Room.fetch
EmptyObject == << >>

\* Room.fetch with an Upgrade: websocket header
DOAccept ==
  /\ backend = "durable"
  /\ nextId < NumSockets
  /\ nextId' = nextId + 1
  /\ connected' = connected \cup {nextId + 1}
  /\ sessions' = [c \in DOMAIN sessions \cup {nextId + 1} |->
                    IF c = nextId + 1 THEN EmptyObject ELSE sessions[c]]
  /\ ready' = ready \cup {nextId + 1}
  /\ lastOp' = [op |-> "accept", sock |-> nextId + 1]
  /\ lastOut' = <<>>
  /\ UNCHANGED <<backend, data, joined, rooms, storage>>

\* Room.getUserId: sessions.get(ws)?.userId
GetUserId(ss, ws) ==
  IF ws \in DOMAIN ss /\ "userId" \in DOMAIN ss[ws] THEN ss[ws].userId ELSE Undef

\* Room.getClientById: the first client of `sessions` whose user id is `id`
GetClientById(id) ==
  LET hits == {c \in DOMAIN sessions : GetUserId(sessions, c) = id}
  IN  IF hits = {} THEN NoSocket ELSE CHOOSE c \in hits : \A x \in hits : c <= x

\* The clients the forEach of Room.webSocketMessage sends the message to
RelayRecipients(ws) == {c \in DOMAIN sessions : c # ws /\ c \in ready}

\* Room.webSocketMessage
DOMessage(ws, d) ==
  /\ backend = "durable"
  /\ ws \in connected /\ ws \in ready
  /\ storage' = IF d.type = "sync" THEN d.payload ELSE storage
  /\ lastOp' = [op |-> "message", sock |-> ws, d |-> d]
  /\ LET t == GetClientById(d.targetId)
     IN  lastOut' = << Emit(d.type, RelayRecipients(ws), d) >> \o
                    ( IF d.type = "signal" /\ t # NoSocket /\ t \in ready
                        THEN << Emit(d.type, {t}, d) >> ELSE <<>> )
  /\ UNCHANGED <<backend, nextId, connected, data, joined, rooms, sessions, ready>>

\* The readyState of a WebSocket leaves OPEN (the client went away).
DOChannelDown(ws) ==
  /\ backend = "durable"
  /\ ws \in connected /\ ws \in ready
  /\ ready' = ready \ {ws}
  /\ lastOp' = [op |-> "down", sock |-> ws]
  /\ lastOut' = <<>>
  /\ UNCHANGED <<backend, nextId, connected, data, joined, rooms, sessions, storage>>

\* Mutant of BroadcastRecipients: the loop ends at the first client that is
\* not OPEN.
BroadcastRecipientsUntilClosed(ss, rdy) ==
  {c \in DOMAIN ss : \A x \in DOMAIN ss : x <= c => x \in rdy}

\* Room.broadcast: the clients of `ss` whose readyState is OPEN
BroadcastRecipients(ss, rdy) == {c \in DOMAIN ss : c \in rdy}

\* Room.webSocketClose
DOClose(ws) ==
  /\ backend = "durable"
  /\ ws \in connected
  /\ connected' = connected \ {ws}
  /\ ready' = ready \ {ws}
  /\ sessions' = [c \in DOMAIN sessions \ {ws} |-> sessions[c]]
  /\ lastOp' = [op |-> "close", sock |-> ws]
  /\ lastOut' = << Emit("user-left", BroadcastRecipients(sessions', ready'),
                        [type |-> "user-left", userId |-> GetUserId(sessions', ws)]) >>
  /\ UNCHANGED <<backend, nextId, data, joined, rooms, storage>>

\* The runtime evicts the object from memory while its WebSockets, accepted
\* with state.acceptWebSocket, stay connected; the next event constructs the
\* object again, with `sessions = new Map()`.
DOEvict ==
  /\ backend = "durable"
  /\ DOMAIN sessions # {}
  /\ sessions' = << >>
  /\ lastOp' = [op |-> "evict"]
  /\ lastOut' = <<>>
  /\ UNCHANGED <<backend, nextId, connected, data, joined, rooms, ready, storage>>

DoNext ==
  \/ DOAccept /\ UNCHANGED pages
  \/ \E ws \in Sockets, d \in DOMessages : DOMessage(ws, d) /\ UNCHANGED pages
  \/ \E ws \in Sockets : DOChannelDown(ws) /\ UNCHANGED pages
  \/ \E ws \in Sockets : DOClose(ws) /\ UNCHANGED pages
  \/ DOEvict /\ UNCHANGED pages

Next == IoNext \/ DoNext

Spec == Init /\ [][Next]_vars

\* ------------------------------------------------------------- properties
\* The emit calls of the last handler that deliver event `ev` to socket `s`
Deliveries(s, ev) == {i \in DOMAIN lastOut : lastOut[i].ev = ev /\ s \in lastOut[i].to}

\* The sockets some emit call of the last handler delivers `ev` to
Receivers(ev) == {s \in Sockets : Deliveries(s, ev) # {}}

\* The connected sockets in the membership map of room r
Members(r) == IF r \in DOMAIN rooms THEN DOMAIN rooms[r].users \cap connected ELSE {}

\* The last handler applied an action to a room of the registry
ActionApplied == backend = "socketio" /\ lastOp.op = "action" /\ lastOut # <<>>

\* The last handler relayed a `sync` message through the Durable Object
SyncRelayed == backend = "durable" /\ lastOp.op = "message" /\ lastOp.d.type = "sync"

\* The Durable Object's open sessions
OpenSessions == DOMAIN sessions \cap ready

OnlyJoinsSoFar ==
  /\ connected = 1..nextId
  /\ \A s \in Sockets : Cardinality(joined[s]) <= 1

\* C2 as stated: the N-th joiner of a fresh room receives N-1 entries in
\* existing-users, the members already present, not itself.
C2_ExistingUsersExcludeJoiner ==
  (backend = "socketio" /\ lastOp.op = "join" /\ OnlyJoinsSoFar) =>
    \A i \in Deliveries(lastOp.sock, "existing-users") :
      /\ Cardinality(DOMAIN lastOut[i].payload) = Cardinality(Members(lastOp.room)) - 1
      /\ lastOp.sock \notin DOMAIN lastOut[i].payload

\* The membership map of room r; empty when the registry has no such room
UsersOf(r) == IF r \in DOMAIN rooms THEN DOMAIN rooms[r].users ELSE {}

\* C3: in the socket.io server a room identifier is a key of the registry if
\* and only if its membership map has at least one entry.
C3_RoomIffMember ==
  backend = "socketio" => \A r \in RoomIds : (r \in DOMAIN rooms) <=> (UsersOf(r) # {})

\* C3 witness: the last member of a room left and the room is gone, while
\* another room with a member stays.
C3_Witness ==
  /\ backend = "socketio" /\ lastOp.op = "disconnect"
  /\ lastOp.room \in RoomIds /\ lastOp.room \notin DOMAIN rooms
  /\ DOMAIN rooms # {}

\* The state a join observes in a fresh room: the joiner alone, nothing playing
FreshWith(s, u, p) ==
  [users |-> [k \in {s} |-> [userId |-> u, peerId |-> p]],
   mediaUrl |-> Null, isPlaying |-> FALSE, currentTime |-> 0]

\* C4 as stated: once every member of a room has disconnected, the next
\* join-room on that identifier observes a fresh room.
C4_FreshAfterLastLeft ==
  [][ \A r \in RoomIds :
        ( /\ backend = "socketio"
          /\ Members(r) = {}
          /\ lastOp'.op = "join" /\ lastOp'.room = r )
        => \A i \in DOMAIN lastOut' :
             lastOut'[i].ev = "room-state" => lastOut'[i].payload = FreshWith(lastOp'.sock, lastOp'.userId, lastOp'.peerId)
    ]_vars

\* C5 as stated: once every session that connected has disconnected, the
\* registry is empty.
C5_EmptyAfterAllLeft ==
  (backend = "socketio" /\ nextId > 0 /\ connected = {}) => DOMAIN rooms = {}

\* The user identifiers the clients present in join-room
JoinUserIds == {UserOf(s) : s \in Sockets}

\* C6 as stated: when a session leaves, every remaining member of its room
\* receives exactly one user-left carrying the user identifier the leaver
\* supplied, and the leaver receives none.
C6_UserLeftToRemaining ==
  /\ (backend = "socketio" /\ lastOp.op = "disconnect" /\ lastOp.room \in RoomIds) =>
       /\ \A m \in Members(lastOp.room) :
            /\ Cardinality(Deliveries(m, "user-left")) = 1
            /\ \A i \in Deliveries(m, "user-left") : lastOut[i].payload = lastOp.userId
       /\ Deliveries(lastOp.sock, "user-left") = {}
  /\ (backend = "durable" /\ lastOp.op = "close") =>
       /\ \A m \in OpenSessions :
            /\ Cardinality(Deliveries(m, "user-left")) = 1
            /\ \A i \in Deliveries(m, "user-left") : lastOut[i].payload.userId \in JoinUserIds
       /\ Deliveries(lastOp.sock, "user-left") = {}

\* The last handler was the socket.io signal handler
IoSignal == backend = "socketio" /\ lastOp.op = "signal"

\* The last handler relayed a `signal` message through the Durable Object
DoSignal == backend = "durable" /\ lastOp.op = "message" /\ lastOp.d.type = "signal"

\* The sessions registered under the target of the last signal
Holders ==
  IF backend = "socketio"
    THEN {t \in connected : data[t].peerId = lastOp.target}
    ELSE {c \in DOMAIN sessions : GetUserId(sessions, c) = lastOp.d.targetId}

\* C7 as stated: a signal is delivered to the session registered under its
\* target, as {fromPeerId of the sender, payload unchanged}, and to no other
\* session.
C7_SignalOnlyToTarget ==
  /\ IoSignal =>
       /\ Receivers("signal") \subseteq Holders
       /\ Holders # {} => Receivers("signal") # {}
       /\ \A i \in DOMAIN lastOut :
            lastOut[i].payload = [fromPeerId |-> data[lastOp.sock].peerId,
                                  signal |-> lastOp.signal]
  /\ DoSignal =>
       /\ Receivers("signal") \subseteq Holders
       /\ \A i \in DOMAIN lastOut : lastOut[i].payload.payload = lastOp.d.payload

\* C8 as stated: each signal received by the server reaches each session at
\* most once and at most one session in total.
C8_SignalAtMostOnce ==
  (IoSignal \/ DoSignal) =>
    /\ \A s \in Sockets : Cardinality(Deliveries(s, "signal")) <= 1
    /\ Cardinality(Receivers("signal")) <= 1

\* C9 as stated: a signal whose target no session holds is delivered to
\* nobody and changes no room state or membership.
C9_UnknownTargetDropped ==
  [][ ( \/ /\ backend = "socketio" /\ lastOp'.op = "signal"
           /\ \A t \in connected : data[t].peerId # lastOp'.target
        \/ /\ backend = "durable" /\ lastOp'.op = "message"
           /\ lastOp'.d.type = "signal"
           /\ \A c \in DOMAIN sessions : GetUserId(sessions, c) # lastOp'.d.targetId )
      => /\ \A i \in DOMAIN lastOut' : lastOut'[i].to = {}
         /\ rooms' = rooms /\ sessions' = sessions /\ storage' = storage
    ]_vars

\* The place of event `ev` among the emit calls of the last handler
Place(ev) == CHOOSE i \in DOMAIN lastOut : lastOut[i].ev = ev

\* The last handler was a join-room that told at least one other member
JoinTold ==
  /\ backend = "socketio" /\ lastOp.op = "join"
  /\ Receivers("user-joined") # {}

\* C10 as stated: on a join-room the joiner is inserted, then room-state and
\* existing-users go to the joiner, and only then user-joined is broadcast.
C10_JoinerServedFirst ==
  JoinTold =>
    /\ Place("room-state") < Place("user-joined")
    /\ Place("existing-users") < Place("user-joined")

\* C10 as amended: on a join-room the joiner is inserted into the membership,
\* user-joined is broadcast to the other members, and then room-state and
\* existing-users, both already holding the joiner, are sent to the joiner.
C10_OthersToldFirst ==
  (backend = "socketio" /\ lastOp.op = "join") =>
    /\ [i \in DOMAIN lastOut |-> lastOut[i].ev]
         = <<"user-joined", "room-state", "existing-users">>
    /\ Members(lastOp.room) \ {lastOp.sock} \subseteq lastOut[1].to
    /\ lastOp.sock \notin lastOut[1].to
    /\ lastOut[2].to = {lastOp.sock} /\ lastOut[3].to = {lastOp.sock}
    /\ lastOp.sock \in DOMAIN lastOut[2].payload.users
    /\ lastOut[2].payload = rooms[lastOp.room]

\* C10 witness: a join-room into a room that has two other members
C10_Witness == JoinTold /\ Cardinality(Receivers("user-joined")) = 2

\* The last handler was a join-room of the socket.io server
JoinHandled == backend = "socketio" /\ lastOp.op = "join"

\* Socket t is in the membership map of a room other than r and not in r's
InOtherRoomOnly(t, r) ==
  /\ t \notin UsersOf(r)
  /\ \E r2 \in DOMAIN rooms \ {r} : t \in UsersOf(r2)

\* C11: on a join-room every other member of the room receives exactly one
\* user-joined carrying the joiner's userId and peerId, the joiner receives
\* none, and members of other rooms receive none.
C11_UserJoinedToOthersOnly ==
  JoinHandled =>
    /\ \A t \in Members(lastOp.room) \ {lastOp.sock} :
         /\ Cardinality(Deliveries(t, "user-joined")) = 1
         /\ lastOut[Place("user-joined")].payload
              = [userId |-> lastOp.userId, peerId |-> lastOp.peerId]
    /\ Deliveries(lastOp.sock, "user-joined") = {}
    /\ \A t \in Sockets : InOtherRoomOnly(t, lastOp.room) => Deliveries(t, "user-joined") = {}

\* The events a join-room answers the joiner with
SnapshotEvents == {"room-state", "existing-users"}

C13_ActionStaysInRoom ==
  [][(backend = "socketio" /\ lastOp'.op = "action" /\ lastOut' # <<>>) =>
       /\ \A r2 \in DOMAIN rooms \ {lastOp'.room} :
            r2 \in DOMAIN rooms' /\ rooms'[r2] = rooms[r2]
       /\ \A i \in DOMAIN lastOut' : \A t \in lastOut'[i].to :
            ~ (/\ t \notin DOMAIN rooms'[lastOp'.room].users
               /\ \E r2 \in DOMAIN rooms' \ {lastOp'.room} :
                    t \in DOMAIN rooms'[r2].users)]_vars

\* C14: a media action with reference X leaves the room with media reference
\* X, playing, at position 0, and that is what its sync carries.
C14_MediaResets ==
  (ActionApplied /\ lastOp.d.type = "media" /\ lastOp.d.url # Undef) =>
    /\ rooms[lastOp.room].mediaUrl = lastOp.d.url
    /\ rooms[lastOp.room].isPlaying
    /\ rooms[lastOp.room].currentTime = 0
    /\ lastOut[1].payload = rooms[lastOp.room]

\* C14 witness: the media "m1" was set
C14_Witness ==
  /\ ActionApplied /\ lastOp.d.type = "media" /\ lastOp.d.url = "m1"
  /\ Cardinality(UsersOf(lastOp.room)) >= 2

\* C15: after a seek to s the position is s, and applying the same seek again
\* leaves the room as it is.
C15_SeekIdempotent ==
  (ActionApplied /\ lastOp.d.type = "seek" /\ lastOp.d.seconds # UndefSeconds) =>
    /\ rooms[lastOp.room].currentTime = lastOp.d.seconds
    /\ Apply(rooms[lastOp.room], lastOp.d) = rooms[lastOp.room]
    /\ Apply(Apply(rooms[lastOp.room], lastOp.d), lastOp.d).currentTime = lastOp.d.seconds

\* C15 witness: a seek to the largest position, the player running
C15_Witness ==
  /\ ActionApplied /\ lastOp.d.type = "seek" /\ lastOp.d.seconds = MaxSeconds
  /\ rooms[lastOp.room].isPlaying

\* C16: a play at s leaves the room playing at position s, a pause at s leaves
\* it paused at position s; neither changes the media reference or the members.
C16_PlayPause ==
  [][(/\ backend = "socketio" /\ lastOp'.op = "action" /\ lastOut' # <<>>
      /\ lastOp'.d.type \in {"play", "pause"} /\ lastOp'.d.seconds # UndefSeconds) =>
       /\ rooms'[lastOp'.room].isPlaying = (lastOp'.d.type = "play")
       /\ rooms'[lastOp'.room].currentTime = lastOp'.d.seconds
       /\ rooms'[lastOp'.room].mediaUrl = rooms[lastOp'.room].mediaUrl
       /\ rooms'[lastOp'.room].users = rooms[lastOp'.room].users]_vars

\* C16 witness: a pause at the largest position in a room that has a media
\* and two members
C16_Witness ==
  /\ ActionApplied /\ lastOp.d.type = "pause" /\ lastOp.d.seconds = MaxSeconds
  /\ rooms[lastOp.room].mediaUrl = "m1" /\ ~ rooms[lastOp.room].isPlaying
  /\ Cardinality(UsersOf(lastOp.room)) >= 2

\* C17: a seek changes the position and nothing else of the room.
C17_SeekOnlyPosition ==
  [][(/\ backend = "socketio" /\ lastOp'.op = "action" /\ lastOut' # <<>>
      /\ lastOp'.d.type = "seek") =>
       /\ rooms'[lastOp'.room].isPlaying = rooms[lastOp'.room].isPlaying
       /\ rooms'[lastOp'.room].mediaUrl = rooms[lastOp'.room].mediaUrl
       /\ rooms'[lastOp'.room].users = rooms[lastOp'.room].users
       /\ DOMAIN rooms' = DOMAIN rooms]_vars

\* C17 witness: a seek to position 0 in a room that plays the media "m1"
C17_Witness ==
  /\ ActionApplied /\ lastOp.d.type = "seek" /\ lastOp.d.seconds = 0
  /\ rooms[lastOp.room].mediaUrl = "m1" /\ rooms[lastOp.room].isPlaying

\* C18: a join-room without roomId, userId or peerId is dropped: the registry,
\* the memberships and socket.data stay as they are and nothing is emitted.
C18_IncompleteJoinDropped ==
  [][(/\ backend = "socketio" /\ lastOp'.op = "join"
      /\ Undef \in {lastOp'.room, lastOp'.userId, lastOp'.peerId}) =>
       /\ rooms' = rooms /\ joined' = joined /\ data' = data
       /\ lastOut' = <<>>]_vars

\* The action lacks the field its type reads
LacksField(d) ==
  \/ d.type \in {"play", "pause", "seek"} /\ d.seconds = UndefSeconds
  \/ d.type = "media" /\ d.url = Undef

\* C19: an action without the field its type needs is dropped: the room is
\* left as it was.
C19_IncompleteActionDropped ==
  [][(backend = "socketio" /\ lastOp'.op = "action" /\ LacksField(lastOp'.d)) =>
       rooms' = rooms]_vars

\* C20: an action of a session whose socket.data has no roomId, or whose room
\* is not in the registry, changes nothing and emits nothing.
C20_ActionOutsideRoomIgnored ==
  [][(/\ backend = "socketio" /\ lastOp'.op = "action"
      /\ (lastOp'.room = Undef \/ lastOp'.room \notin DOMAIN rooms)) =>
       /\ rooms' = rooms /\ joined' = joined /\ data' = data
       /\ lastOut' = <<>>]_vars

\* C20 witness: an action of a session that never sent join-room was ignored
\* while the registry holds rooms, the one keyed by a missing roomId included
C20_Witness ==
  /\ backend = "socketio" /\ lastOp.op = "action"
  /\ data[lastOp.sock] = NoData /\ lastOut = <<>>
  /\ Undef \in DOMAIN rooms /\ "r1" \in DOMAIN rooms

\* C21: the disconnect of a session that never sent join-room changes no
\* room of the registry and delivers no event to any session.
C21_UnjoinedDisconnectSilent ==
  [][(/\ backend = "socketio" /\ lastOp'.op = "disconnect"
      /\ data[lastOp'.sock] = NoData) =>
       /\ rooms' = rooms
       /\ lastOut' = <<>>]_vars

\* C21 witness: a session that never joined has disconnected while the
\* registry holds rooms, the one keyed by a missing roomId included
C21_Witness ==
  /\ backend = "socketio" /\ lastOp.op = "disconnect"
  /\ lastOp.room = Undef /\ lastOp.userId = Undef /\ lastOut = <<>>
  /\ Undef \in DOMAIN rooms /\ "r1" \in DOMAIN rooms

\* The rooms whose membership map holds socket s
RoomsHolding(s) == {r \in DOMAIN rooms : s \in DOMAIN rooms[r].users}

\* C22: the disconnect of a joined session removes it from the membership of
\* every room it was added to and broadcasts one user-left for each of them.
C22_LeftEveryRoomOnce ==
  [][(backend = "socketio" /\ lastOp'.op = "disconnect") =>
       /\ \A r \in RoomsHolding(lastOp'.sock) :
            r \in DOMAIN rooms' => lastOp'.sock \notin DOMAIN rooms'[r].users
       /\ Len(lastOut') = Cardinality(RoomsHolding(lastOp'.sock))
       /\ \A i \in DOMAIN lastOut' : lastOut'[i].ev = "user-left"]_vars

\* The playback part of a room record
Playback(room) ==
  [mediaUrl |-> room.mediaUrl, isPlaying |-> room.isPlaying,
   currentTime |-> room.currentTime]

\* C23: the handlers of a room take effect one after the other.  An action
\* leaves the room as the whole action applied to the room as it was, members
\* untouched; a join adds the joiner and a leave removes the leaver, playback
\* untouched; every room-state and sync carries the room as the handler that
\* sends it has left it.
C23_Serialized ==
  [][backend = "socketio" =>
       /\ (lastOp'.op = "action" /\ lastOut' # <<>>) =>
            /\ rooms'[lastOp'.room] = Apply(rooms[lastOp'.room], lastOp'.d)
            /\ rooms'[lastOp'.room].users = rooms[lastOp'.room].users
            /\ \A i \in DOMAIN lastOut' : lastOut'[i].payload = rooms'[lastOp'.room]
       /\ lastOp'.op = "join" =>
            LET old == GetOrCreate(rooms, lastOp'.room)
            IN  /\ Playback(rooms'[lastOp'.room]) = Playback(old)
                /\ DOMAIN rooms'[lastOp'.room].users
                     = DOMAIN old.users \cup {lastOp'.sock}
                /\ \A i \in DOMAIN lastOut' :
                     lastOut'[i].ev = "room-state" =>
                       lastOut'[i].payload = rooms'[lastOp'.room]
       /\ (lastOp'.op = "disconnect" /\ lastOp'.room \in DOMAIN rooms') =>
            /\ Playback(rooms'[lastOp'.room]) = Playback(rooms[lastOp'.room])
            /\ DOMAIN rooms'[lastOp'.room].users
                 = DOMAIN rooms[lastOp'.room].users \ {lastOp'.sock}]_vars

\* C23 witness: three sessions receive the sync of a pause that follows a
\* change of media
C23_Witness ==
  /\ ActionApplied /\ lastOp.d.type = "pause" /\ lastOp.d.seconds = MaxSeconds
  /\ rooms[lastOp.room].mediaUrl = "m1"
  /\ Cardinality(Receivers("sync")) >= 3

\* The events that carry a snapshot of a room to a client
SnapshotCarriers == {"room-state", "sync"}

\* C24: the snapshot a member of a room has received last is the server's
\* state of that room: whenever the run stops, every snapshot the last handler
\* delivered to a member of a room equals the playback state of that room.
C24_LastSnapshotIsCurrent ==
  backend = "socketio" =>
    \A i \in DOMAIN lastOut :
      lastOut[i].ev \in SnapshotCarriers =>
        \A t \in lastOut[i].to : \A r \in DOMAIN rooms :
          t \in Members(r) => Playback(lastOut[i].payload) = Playback(rooms[r])

\* C25: the playback position of every room of the registry is a
\* non-negative number.
C25_PositionNonNegative ==
  backend = "socketio" =>
    \A r \in DOMAIN rooms :
      rooms[r].currentTime # UndefSeconds /\ rooms[r].currentTime >= 0

\* The last handler of the Durable Object ran one of its send loops
LoopRan == backend = "durable" /\ lastOp.op \in {"message", "close"}

\* C26: a send loop of the Durable Object skips the sessions whose WebSocket
\* is not open and reaches every other session it is meant for, once; a
\* WebSocket that is not open is sent nothing, by this handler or a later one.
C26_ClosedSkippedOthersServed ==
  backend = "durable" =>
    /\ \A i \in DOMAIN lastOut : lastOut[i].to \subseteq ready
    /\ lastOp.op = "close" =>
         /\ lastOut[1].to = DOMAIN sessions \cap ready
         /\ Len(lastOut) = 1
    /\ lastOp.op = "message" =>
         lastOut[1].to = (DOMAIN sessions \cap ready) \ {lastOp.sock}

\* C26 witness: a broadcast skipped a session that is not open and reached
\* another one
C26_Witness ==
  /\ LoopRan /\ lastOp.op = "close"
  /\ DOMAIN sessions \ ready # {}
  /\ lastOut[1].to # {}

\* C27: in the socket.io server every entry of a room's membership map is
\* the entry of a connected session whose socket.data.roomId is that room, so
\* a session is in the membership map of at most one room.
C27_MembersAreCurrent ==
  backend = "socketio" =>
    \A r \in DOMAIN rooms : \A s \in DOMAIN rooms[r].users :
      s \in connected /\ data[s].roomId = r

\* C28: the sessions that receive a sync, user-joined or user-left are the
\* sessions of the room's membership map at that time, without the joiner
\* for user-joined (the leaver is already out of the map).
C28_BroadcastToMembershipMap ==
  backend = "socketio" =>
    \A i \in DOMAIN lastOut :
      /\ lastOut[i].ev \in {"sync", "user-left"} => lastOut[i].to = UsersOf(lastOp.room)
      /\ lastOut[i].ev = "user-joined" =>
           lastOut[i].to = UsersOf(lastOp.room) \ {lastOp.sock}

\* C29: a signal is delivered only to a session that has sent join-room and
\* so registered a peer identifier.
C29_SignalOnlyToJoined ==
  (backend = "socketio" /\ lastOp.op = "signal") =>
    \A t \in Receivers("signal") : data[t].roomId # Undef /\ data[t].peerId # Undef

\* The types the switch of the action handler knows
KnownTypes == {"play", "pause", "seek", "media"}

\* C30: an action of an unknown type sent by a joined session leaves the room
\* as it is and is answered with exactly one sync, carrying the unchanged
\* room, that reaches every member of the room.
C30_UnknownTypeOnlySyncs ==
  [][(/\ backend = "socketio" /\ lastOp'.op = "action"
      /\ lastOp'.d.type \notin KnownTypes
      /\ lastOp'.room \in DOMAIN rooms) =>
       /\ rooms' = rooms
       /\ Len(lastOut') = 1
       /\ lastOut'[1].ev = "sync"
       /\ lastOut'[1].payload = rooms[lastOp'.room]
       /\ DOMAIN rooms[lastOp'.room].users \cap connected \subseteq lastOut'[1].to]_vars

\* C30 witness: an action of an unknown type was answered in a room of two
\* members that plays the media "m1"
C30_Witness ==
  /\ ActionApplied /\ lastOp.d.type \notin KnownTypes
  /\ rooms[lastOp.room].mediaUrl = "m1" /\ rooms[lastOp.room].isPlaying
  /\ Cardinality(Receivers("sync")) >= 2

\* The pages that have joined the room
JoinedPages == {s \in DOMAIN pages \cap connected : data[s].roomId = "r1"}

\* The membership entries of the room "r1" other than that of socket s
OtherMembers(s) == {rooms["r1"].users[k] : k \in DOMAIN rooms["r1"].users \ {s}}

\* C31: on every page that has joined, with every join and leave event
\* delivered, the `users` list holds the other members of the room, each once,
\* and not the page itself, so that users.length + 1 is the number of members.
C31_UsersListIsOthers ==
  \A s \in JoinedPages :
    /\ BagToSet(pages[s].users) = OtherMembers(s)
    /\ \A u \in BagToSet(pages[s].users) : CopiesIn(u, pages[s].users) = 1
    /\ BagCardinality(pages[s].users) + 1 = Cardinality(DOMAIN rooms["r1"].users)

\* C32: a page emits join-room at most once on its socket connection.
C32_JoinAtMostOnce ==
  \A s \in DOMAIN pages : pages[s].joins <= 1

\* C33: a page emits an action only for an input of its user, never out of a
\* callback the player invokes for a change the page made when it applied a
\* room-state or sync.
C33_NoActionFromSync ==
  \A s \in DOMAIN pages : pages[s].last # "widget"
====
